---- MODULE Spec2Model ----
(***************************************************************************)
(* A model of stripy.cartesian.Triangulation (src/stripy/cartesian.py).    *)
(*                                                                         *)
(* Arrays are sequences; the values held in index arrays (permutations,    *)
(* simplices, segments) are the 0-based numpy indices of the source, so    *)
(* At(a, i) reads a[i].  Coordinates are integers, multiples of 12, so that *)
(* the halved cross product of areas(), the midpoints of                   *)
(* segment_midpoints() and the means of face_midpoints() are exact.        *)
(*                                                                         *)
(* The Fortran engines (_tripack, _srfpack) are not part of cartesian.py:  *)
(* they are modelled from their interface (status codes of _ier_codes, a   *)
(* counter-clockwise triangle enumeration of a triangulation of the nodes).*)
(***************************************************************************)
EXTENDS Integers, Sequences, FiniteSets, TLC

\* ------------------------------------------------------------------ bounds

\* How many points of DomainPoints the inputs are drawn from.
DomainSize == 5

\* The numbers of points handed to the constructor.
PointCounts == 2..4

\* Largest number of triangle indices in a selection (refinement by triangles).
MaxSel == 2

\* The coordinates the inputs are drawn from: the corners of a square and
\* its centre (two collinear triples, one convex quadrilateral), then the
\* middle of a side.
DomainPoints ==
    << <<0, 0>>, <<24, 0>>, <<0, 24>>, <<24, 24>>, <<12, 12>>, <<12, 0>> >>

Domain == { DomainPoints[k] : k \in 1..DomainSize }

\* How many rows of non-positive area the triangle enumeration may add.
ArtifactCounts == {0, 1}

\* ----------------------------------------------------------- array helpers

\* a[i] for a 0-based index i
At(a, i) == a[i + 1]

\* a[idx] for an index array idx (numpy fancy indexing)
Take(a, idx) == [k \in 1..Len(idx) |-> At(a, idx[k])]

\* np.arange(0, n)
Arange(n) == [k \in 1..n |-> k - 1]

\* np.column_stack([x, y])
ColumnStack(xs, ys) == [k \in 1..Len(xs) |-> <<xs[k], ys[k]>>]

Col(pts, c) == [k \in 1..Len(pts) |-> pts[k][c]]

\* the values np.random.permutation(n) can return
Perms(n) ==
    { q \in [1..n -> 0..(n - 1)] : \A i, j \in 1..n : q[i] = q[j] => i = j }

\* Arrays of more than MaxShuffled points are shuffled by three of their
\* permutations: the identity, the reversal, and the exchange of the third
\* and fourth elements.
MaxShuffled == 4

DrawnPerms(n) ==
    IF n <= MaxShuffled THEN Perms(n)
    ELSE { [k \in 1..n |-> k - 1],
           [k \in 1..n |-> n - k],
           [k \in 1..n |-> IF k = 3 THEN 3 ELSE IF k = 4 THEN 2 ELSE k - 1] }

\* lexicographic order on tuples of integers of the same length
RECURSIVE LexLess(_, _)
LexLess(s, t) ==
    IF s = <<>> \/ t = <<>> THEN FALSE
    ELSE IF Head(s) # Head(t) THEN Head(s) < Head(t)
    ELSE LexLess(Tail(s), Tail(t))

\* the elements of a finite set of tuples, smallest first (np.unique's order)
RECURSIVE SortedSeq(_)
SortedSeq(S) ==
    IF S = {} THEN <<>>
    ELSE LET m == CHOOSE a \in S : \A b \in S : b = a \/ LexLess(a, b)
         IN  <<m>> \o SortedSeq(S \ {m})

Range(s) == { s[k] : k \in 1..Len(s) }

RECURSIVE SumSeq(_)
SumSeq(s) == IF s = <<>> THEN 0 ELSE Head(s) + SumSeq(Tail(s))

\* ----------------------------------------------------------------- inputs

RECURSIVE SeqsOfLen(_, _)
SeqsOfLen(S, n) ==
    IF n = 0 THEN { <<>> }
    ELSE { Append(s, e) : s \in SeqsOfLen(S, n - 1), e \in S }

NonDecreasing(s) ==
    \A k \in 1..(Len(s) - 1) : s[k] = s[k + 1] \/ LexLess(s[k], s[k + 1])

\* Point arrays over Domain, repeated points included.
PointArrays == UNION { SeqsOfLen(Domain, n) : n \in PointCounts }

\* With permute on, the first permutation makes the order of the input
\* immaterial: one order per multiset of points is enumerated.
Inputs(perm) ==
    IF perm THEN { s \in PointArrays : NonDecreasing(s) } ELSE PointArrays

\* The values of refinement_levels handed to the constructor.
RefinementLevels == {0, 1}

\* The instances built with refinement_levels > 0 have no spatial index and
\* start from one triangle: half of the square in both orders, and a quarter
\* of it.
RefinedInputs(perm) ==
    Inputs(perm) \cap { << <<0, 0>>, <<24, 0>>, <<0, 24>> >>,
                        << <<0, 0>>, <<0, 24>>, <<24, 0>> >>,
                        << <<12, 12>>, <<0, 0>>, <<0, 24>> >> }

\* The instances built with a spatial index (tree on) have TreePoints points.
TreePoints == 3

TreeInputs(perm, tr) ==
    IF tr THEN { s \in Inputs(perm) : Len(s) = TreePoints } ELSE Inputs(perm)

\* ------------------------------------------------------------------ state

VARIABLES
    permute,          \* self.permute
    tree,             \* self.tree
    input,            \* the points given to the constructor (x, y zipped)
    refinement_levels,\* the argument refinement_levels of the constructor
    rounds,           \* history: for each turn of the loop of __init__ so far,
                      \* the number of unique segments of the triangulation it
                      \* refined and the array the refinement returned
    pc,               \* "new", "loop" (in the retry loop), "idle" (constructed),
                      \* "returned" (a call on the instance ended), "failed"
                      \* (the constructor raised), "rebuilt" (a later call of
                      \* _update_triangulation on the instance ended),
                      \* "refine" (in the loop of __init__, before a turn),
                      \* "refined" (constructed with refinement_levels > 0)
    builds,           \* calls of _update_triangulation entered so far
    x, y,             \* the arguments / locals x, y of _update_triangulation
    p, ip,            \* its locals p, ip
    niter, ierr,      \* its locals niter, ierr
    adj,              \* its locals lst, lptr, lend (the engine's adjacency)
    _permutation,     \* self._permutation
    _invpermutation,  \* self._invpermutation
    npoints,          \* self.npoints
    _x, _y, _points,  \* self._x, self._y, self._points
    lst,              \* self.lst, self.lptr, self.lend
    _simplices,       \* self._simplices
    _cKDtree,         \* self._cKDtree
    nt,               \* rows the last triangle enumeration returned
    result            \* what the last call returned or raised

locals == <<x, y, p, ip, niter, ierr, adj>>
fields == <<_permutation, _invpermutation, npoints, _x, _y, _points, lst, _simplices,
           _cKDtree>>
vars == <<permute, tree, input, refinement_levels, rounds, pc, builds, locals, fields, nt, result>>

\* the adjacency arrays before any build
NoAdjacency == [pts |-> <<>>, tris |-> {}]

\* --------------------------------------------------------------- geometry

\* (b - a) x (c - a): positive when a, b, c turn counter-clockwise
Orient(a, b, c) ==
    (b[1] - a[1]) * (c[2] - a[2]) - (b[2] - a[2]) * (c[1] - a[1])

\* np.linalg.det of the rows (x_k, y_k, 1), k = 0, 1, 2, is zero
_is_collinear(xs, ys) ==
    xs[1] * (ys[2] - ys[3]) - ys[1] * (xs[2] - xs[3])
        + (xs[2] * ys[3] - xs[3] * ys[2]) = 0

\* ----------------------------------------------- the triangulation engine

\* Nodes (0-based) of pts that coincide with an earlier node.
CoincidentNodes(pts) ==
    { j \in 0..(Len(pts) - 1) : \E i \in 0..(j - 1) : At(pts, i) = At(pts, j) }

\* The 1-based node L met again by the first node M > L that coincides with
\* an earlier one.
FirstCoincidence(pts) ==
    LET m == CHOOSE j \in CoincidentNodes(pts) :
                 \A k \in CoincidentNodes(pts) : j <= k
    IN  1 + CHOOSE i \in 0..(m - 1) : At(pts, i) = At(pts, m)

\* The status _tripack.trmesh can report for the nodes pts (in engine order),
\* after _ier_codes: -1 for N < 3, -2 for a collinear seed, -3 or the
\* (1-based) node L for coincident nodes, -4 for an internal error, else 0.
TrmeshStatus(pts) ==
    IF Len(pts) < 3 THEN {-1}
    ELSE IF _is_collinear(Col(pts, 1), Col(pts, 2)) THEN {-2}
    ELSE IF CoincidentNodes(pts) # {}
         THEN {-3, FirstCoincidence(pts)}
    ELSE {0, -4}

\* Triples of nodes, lowest node first, that turn counter-clockwise and hold
\* no other node inside or on their border.
EmptyTriangles(pts) ==
    LET N == 0..(Len(pts) - 1)
        P(i) == At(pts, i)
    IN  { t \in N \X N \X N :
            /\ t[1] < t[2] /\ t[1] < t[3]
            /\ Orient(P(t[1]), P(t[2]), P(t[3])) > 0
            /\ \A k \in N \ {t[1], t[2], t[3]} :
                  \/ Orient(P(t[1]), P(t[2]), P(k)) < 0
                  \/ Orient(P(t[2]), P(t[3]), P(k)) < 0
                  \/ Orient(P(t[3]), P(t[1]), P(k)) < 0 }

\* Two counter-clockwise triangles whose interiors meet: no edge of either
\* has the other triangle on or beyond its outer side.
Overlap(pts, t, u) ==
    LET P(i) == At(pts, i)
        Outside(a, b, v) ==
            \A k \in 1..3 : Orient(P(a), P(b), P(v[k])) <= 0
        Sep(s, v) == \/ Outside(s[1], s[2], v)
                     \/ Outside(s[2], s[3], v)
                     \/ Outside(s[3], s[1], v)
    IN  ~(Sep(t, u) \/ Sep(u, t))

RECURSIVE TotalArea2(_, _)
TotalArea2(pts, T) ==
    IF T = {} THEN 0
    ELSE LET t == CHOOSE u \in T : TRUE
         IN  Orient(At(pts, t[1]), At(pts, t[2]), At(pts, t[3]))
               + TotalArea2(pts, T \ {t})

\* The triangulations of the nodes pts: the sets of empty triangles with
\* disjoint interiors that cover the convex hull (the largest total area).
Triangulations(pts) ==
    LET Plane == { T \in SUBSET EmptyTriangles(pts) :
                     \A t, u \in T : t = u \/ ~Overlap(pts, t, u) }
        Covered == { TotalArea2(pts, U) : U \in Plane }
        Largest == CHOOSE m \in Covered : \A n \in Covered : n <= m
    IN  { T \in Plane : TotalArea2(pts, T) = Largest }

\* What _tripack.trmesh(x, y) can return: <<adjacency, ierr>>.  On success the
\* adjacency holds a triangulation of the nodes; otherwise it holds none.
trmesh(xs, ys) ==
    LET pts == ColumnStack(xs, ys)
    IN  UNION { IF e = 0
                THEN { <<[pts |-> pts, tris |-> T], 0>> : T \in Triangulations(pts) }
                ELSE { <<NoAdjacency, e>> } : e \in TrmeshStatus(pts) }

\* The rows (0-based, listed from their lowest node) of non-positive area
\* that an enumeration may hold besides the triangles: clockwise, collinear
\* or repeated nodes.
ArtifactRows(pts) ==
    LET N == 0..(Len(pts) - 1)
    IN  { t \in N \X N \X N :
            /\ t[1] <= t[2] /\ t[1] <= t[3]
            /\ Orient(At(pts, t[1]), At(pts, t[2]), At(pts, t[3])) <= 0 }

InsertAt(s, k, e) == SubSeq(s, 1, k) \o <<e>> \o SubSeq(s, k + 1, Len(s))

\* What _tripack.trlist2(lst, lptr, lend) can return: <<nt, ltri, ierr>>, the
\* rows of ltri holding 1-based nodes.  Each triangle of the adjacency is
\* listed once, counter-clockwise from its lowest node, in increasing order;
\* rows of non-positive area may come with them.  A non-zero status (1 or 2
\* of _ier_codes) comes with no rows.
trlist2(a) ==
    LET base == SortedSeq(a.tris)
        more == { InsertAt(base, k, d) : k \in 0..Len(base), d \in ArtifactRows(a.pts) }
        rows == (IF 0 \in ArtifactCounts THEN {base} ELSE {})
                  \cup (IF 1 \in ArtifactCounts THEN more ELSE {})
        OneBased(l) == [k \in 1..Len(l) |-> [c \in 1..3 |-> l[k][c] + 1]]
    IN  { <<Len(l), OneBased(l), 0>> : l \in rows }
          \cup { <<0, <<>>, e>> : e \in {1, 2} }

\* ------------------------------------------------- permutation bookkeeping

\* _generate_permutation(npoints): <<p, ip>> with ip[p[i]] = i
_generate_permutation(n) ==
    { <<q, [j \in 1..n |-> (CHOOSE i \in 1..n : q[i] = j - 1) - 1]>> : q \in DrawnPerms(n) }

\* arg[p]
_shuffle_field(pv, arg) == Take(arg, pv)

\* arg[ip]
_deshuffle_field(ipv, arg) == Take(arg, ipv)

\* p[simplices], simplices an array of rows of indices
_deshuffle_simplices(pv, simplices) ==
    [k \in 1..Len(simplices) |-> Take(pv, simplices[k])]

\* areas() over points = self.points and simplices = self.simplices
areas(points, simplices) ==
    [k \in 1..Len(simplices) |->
        LET s  == simplices[k]
            a  == At(points, s[1])
            b  == At(points, s[2])
            c  == At(points, s[3])
            v1 == <<b[1] - a[1], b[2] - a[2]>>
            v2 == <<c[1] - b[1], c[2] - b[2]>>
        IN  (v1[1] * v2[2] - v1[2] * v2[1]) \div 2 ]

\* a[mask] for a boolean mask
RECURSIVE Mask(_, _)
Mask(a, mask) ==
    IF a = <<>> THEN <<>>
    ELSE (IF Head(mask) THEN <<Head(a)>> ELSE <<>>) \o Mask(Tail(a), Tail(mask))

\* ------------------------------------------------------------ construction

\* self._cKDtree: not assigned yet, None, or the index over the points
NoAttribute == [state |-> "unset", data |-> <<>>]
NoIndex == [state |-> "None", data |-> <<>>]
cKDTree(pts) == [state |-> "built", data |-> pts]

\* _build_cKDtree() (lines 1084-1091): the index over self.points, or None
\* when scipy cannot be imported or the build raises
_build_cKDtree(pts) == { cKDTree(pts), NoIndex }

PositiveArea_NonNegative(area) == [k \in 1..Len(area) |-> area[k] >= 0]

\* area > 0.0, the mask of line 188
PositiveArea(area) == [k \in 1..Len(area) |-> area[k] > 0]

\* the bound of the retry loop
MaxAttempts == 5

\* the key of _ier_codes used for a positive trmesh status
DuplicateKey == 9999

NoLocals ==
    /\ x' = <<>> /\ y' = <<>> /\ p' = <<>> /\ ip' = <<>>
    /\ niter' = 0 /\ ierr' = 0 /\ adj' = NoAdjacency

\* the call of _update_triangulation in progress is the one __init__ makes
\* (line 112)
Constructing ==
    pc \in {"new", "refine"} \/ (pc = "loop" /\ builds <= 1 + refinement_levels)

\* the number of the call of _update_triangulation in progress
Entered == IF pc = "loop" THEN builds ELSE builds + 1

\* where a call of _update_triangulation that returned leaves the run: in the
\* loop of __init__ (lines 114-116) while turns are left, else with an
\* instance
AfterBuild ==
    IF ~Constructing THEN "rebuilt"
    ELSE IF Entered <= refinement_levels THEN "refine"
    ELSE IF refinement_levels = 0 THEN "idle"
    ELSE "refined"

\* raise ValueError: out of the constructor no instance is returned; out of a
\* later call the instance stays, with what the call had assigned before
Raise(where, key, status, calls) ==
    /\ result' = [op |-> "_update_triangulation", args |-> <<>>,
                  raised |-> "ValueError", where |-> where, code |-> key,
                  ierr |-> status, calls |-> calls, value |-> <<>>,
                  engine |-> <<>>, warnings |-> <<>>]
    /\ pc' = IF Constructing THEN "failed" ELSE "rebuilt"
    /\ NoLocals

\* Lines 160-195: the permutation is stored, the status of trmesh decides,
\* the fields are stored, the triangles are listed and filtered by area.
\* calls counts the engine calls made so far.
Build(pv, ipv, xs, ys, e, a, calls) ==
    /\ _permutation' = pv
    /\ _invpermutation' = ipv
    /\ IF e > 0 THEN
          /\ Raise("trmesh", DuplicateKey, e, calls)
          /\ UNCHANGED <<npoints, _x, _y, _points, lst, _simplices, _cKDtree, nt>>
       ELSE IF e # 0 THEN
          /\ Raise("trmesh", e, e, calls)
          /\ UNCHANGED <<npoints, _x, _y, _points, lst, _simplices, _cKDtree, nt>>
       ELSE
          /\ npoints' = Len(xs)
          /\ _x' = xs
          /\ _y' = ys
          /\ _points' = ColumnStack(xs, ys)
          /\ lst' = a
          /\ \E r \in trlist2(a) :
                IF r[3] # 0 THEN
                   /\ Raise("trlist2", r[3], r[3], calls + 1)
                   /\ UNCHANGED <<_simplices, _cKDtree, nt>>
                ELSE
                   LET raw  == [k \in 1..r[1] |-> [c \in 1..3 |-> r[2][k][c] - 1]]
                       area == areas(_deshuffle_field(ipv, ColumnStack(xs, ys)),
                                     _deshuffle_simplices(pv, raw))
                   IN  /\ _simplices' = Mask(raw, PositiveArea(area))
                       /\ nt' = r[1]
                       /\ IF tree
                          THEN _cKDtree' \in _build_cKDtree(_deshuffle_field(ipv, ColumnStack(xs, ys)))
                          ELSE UNCHANGED _cKDtree
                       /\ result' = [op |-> "_update_triangulation", args |-> <<>>,
                                     raised |-> "none", where |-> "", code |-> 0,
                                     ierr |-> 0, calls |-> calls + 1, value |-> <<>>,
                                     engine |-> <<>>, warnings |-> <<>>]
                       /\ pc' = AfterBuild
                       /\ NoLocals

NoResult == [op |-> "", args |-> <<>>, raised |-> "none", where |-> "", code |-> 0,
             ierr |-> 0, calls |-> 0, value |-> <<>>,
             engine |-> <<>>, warnings |-> <<>>]

Init ==
    /\ permute \in BOOLEAN
    /\ tree \in BOOLEAN
    /\ refinement_levels \in IF tree THEN {0} ELSE RefinementLevels
    /\ input \in IF refinement_levels = 0 THEN TreeInputs(permute, tree)
                  ELSE RefinedInputs(permute)
    /\ rounds = <<>>
    /\ pc = "new"
    /\ builds = 0
    /\ x = <<>> /\ y = <<>> /\ p = <<>> /\ ip = <<>>
    /\ niter = 0 /\ ierr = 0 /\ adj = NoAdjacency
    /\ _permutation = <<>> /\ _invpermutation = <<>>
    /\ npoints = 0
    /\ _x = <<>> /\ _y = <<>> /\ _points = <<>>
    /\ lst = NoAdjacency
    /\ _simplices = <<>>
    /\ _cKDtree = NoAttribute
    /\ nt = 0
    /\ result = NoResult

\* _update_triangulation(x, y) with permute off (lines 138, 155-195)
UpdateIdentity ==
    /\ pc = "new"
    /\ ~permute
    /\ LET xs == Col(input, 1)
           ys == Col(input, 2)
       IN  \E r \in trmesh(xs, ys) :
              Build(Arange(Len(xs)), Arange(Len(xs)), xs, ys, r[2], r[1], 1)
    /\ builds' = builds + 1
    /\ UNCHANGED <<permute, tree, input, refinement_levels, rounds>>

\* _update_triangulation(x, y) with permute on, up to the loop (lines 138-144)
UpdatePermuteEnter ==
    /\ pc = "new"
    /\ permute
    /\ x' = Col(input, 1)
    /\ y' = Col(input, 2)
    /\ niter' = 0
    /\ ierr' = -2
    /\ pc' = "loop"
    /\ builds' = builds + 1
    /\ UNCHANGED <<permute, tree, input, refinement_levels, rounds, p, ip, adj, fields, nt, result>>

\* one turn of the loop (lines 145-150)
UpdatePermuteAttempt ==
    /\ pc = "loop"
    /\ ierr = -2 /\ niter < MaxAttempts
    /\ \E g \in _generate_permutation(Len(x)) :
          LET xs == Take(x, g[1])
              ys == Take(y, g[1])
          IN  \E r \in trmesh(xs, ys) :
                 /\ p' = g[1]
                 /\ ip' = g[2]
                 /\ x' = xs
                 /\ y' = ys
                 /\ adj' = r[1]
                 /\ ierr' = r[2]
    /\ niter' = niter + 1
    /\ UNCHANGED <<permute, tree, input, refinement_levels, rounds, pc, builds, fields, nt, result>>

\* after the loop (lines 152-153, 160-195)
UpdatePermuteExit ==
    /\ pc = "loop"
    /\ ~(ierr = -2 /\ niter < MaxAttempts)
    /\ IF niter >= MaxAttempts
       THEN /\ Raise("", -2, ierr, niter)
            /\ UNCHANGED <<fields, nt>>
       ELSE Build(p, ip, x, y, ierr, adj, niter)
    /\ UNCHANGED <<permute, tree, input, refinement_levels, rounds, builds>>

\* the calls of _update_triangulation one run makes on one instance
MaxBuilds == 2

\* the arrays a later call of _update_triangulation is given: too few points,
\* and a triangle
RebuildInputs ==
    { << <<0, 0>>, <<24, 0>> >>,
      << <<0, 0>>, <<24, 0>>, <<0, 24>> >> }

\* _update_triangulation(x, y) on a constructed instance, with permute off
\* (lines 138, 155-195)
RebuildIdentity ==
    /\ pc \in {"idle", "rebuilt"}
    /\ builds < MaxBuilds
    /\ ~permute
    /\ \E pts \in RebuildInputs :
          LET xs == Col(pts, 1)
              ys == Col(pts, 2)
          IN  \E r \in trmesh(xs, ys) :
                 Build(Arange(Len(xs)), Arange(Len(xs)), xs, ys, r[2], r[1], 1)
    /\ builds' = builds + 1
    /\ UNCHANGED <<permute, tree, input, refinement_levels, rounds>>

\* the same with permute on, up to the loop (lines 138-144)
RebuildPermuteEnter ==
    /\ pc \in {"idle", "rebuilt"}
    /\ builds < MaxBuilds
    /\ permute
    /\ \E pts \in RebuildInputs :
          /\ x' = Col(pts, 1)
          /\ y' = Col(pts, 2)
    /\ niter' = 0
    /\ ierr' = -2
    /\ pc' = "loop"
    /\ builds' = builds + 1
    /\ UNCHANGED <<permute, tree, input, refinement_levels, rounds, p, ip, adj, fields, nt, result>>

\* ---------------------------------------------------------------- accessors

\* the properties x, y, points, simplices (lines 200-216)
self_x == _deshuffle_field(_invpermutation, _x)
self_y == _deshuffle_field(_invpermutation, _y)
points == _deshuffle_field(_invpermutation, _points)
simplices == _deshuffle_simplices(_permutation, _simplices)

\* ----------------------------------------------------------------- segments

\* np.sort([a, b], axis=0) of one column
SortPair(a, b) == IF a <= b THEN <<a, b>> ELSE <<b, a>>

Unique_KeepAll(rows) == rows

\* the unique rows of an array of rows, sorted (np.unique)
Unique(rows) == SortedSeq(Range(rows))

\* identify_segments() (lines 782-799)
identify_segments ==
    LET n  == Len(_simplices)
        i1 == [k \in 1..n |-> SortPair(_simplices[k][1], _simplices[k][2])]
        i2 == [k \in 1..n |-> SortPair(_simplices[k][1], _simplices[k][3])]
        i3 == [k \in 1..n |-> SortPair(_simplices[k][2], _simplices[k][3])]
        a  == i1 \o i2 \o i3
        segments == Unique(a)
    IN  _deshuffle_simplices(_permutation, segments)

\* segment_midpoints(segments) (lines 847-854): <<mid_xpt, mid_ypt>>
segment_midpoints(segments) ==
    LET mids == [k \in 1..Len(segments) |->
                    LET a == At(points, segments[k][1])
                        b == At(points, segments[k][2])
                    IN  <<(a[1] + b[1]) \div 2, (a[2] + b[2]) \div 2>>]
    IN  <<Col(mids, 1), Col(mids, 2)>>

\* the ratio 0.33333 of segment_tripoints, as Ratio / RatioScale
Ratio == 33333
RatioScale == 100000

\* segment_tripoints() (lines 857-871), in units of 1 / RatioScale
segment_tripoints ==
    LET segments == identify_segments
        n     == Len(segments)
        A(k)  == At(points, segments[k][1])
        B(k)  == At(points, segments[k][2])
        Mix(u, v) == <<Ratio * u[1] + (RatioScale - Ratio) * v[1],
                       Ratio * u[2] + (RatioScale - Ratio) * v[2]>>
        mids1 == [k \in 1..n |-> Mix(A(k), B(k))]
        mids2 == [k \in 1..n |-> Mix(B(k), A(k))]
        mids  == mids1 \o mids2
    IN  <<Col(mids, 1), Col(mids, 2)>>

\* face_midpoints(simplices) (lines 821-833): the mean of the three vertices
face_midpoints(simps) ==
    LET mids == [k \in 1..Len(simps) |->
                    LET a == At(points, simps[k][1])
                        b == At(points, simps[k][2])
                        c == At(points, simps[k][3])
                    IN  <<(a[1] + b[1] + c[1]) \div 3, (a[2] + b[2] + c[2]) \div 3>>]
    IN  <<Col(mids, 1), Col(mids, 2)>>

\* --------------------------------------------------------------- refinement

\* _add_midpoints() (lines 922-929)
_add_midpoints ==
    LET m == segment_midpoints(identify_segments)
    IN  <<self_x \o m[1], self_y \o m[2]>>

\* _add_tripoints() (lines 931-938), in units of 1 / RatioScale
_add_tripoints ==
    LET m == segment_tripoints
        Scaled(v) == [k \in 1..Len(v) |-> RatioScale * v[k]]
    IN  <<Scaled(self_x) \o m[1], Scaled(self_y) \o m[2]>>

\* _add_face_centroids() (lines 940-947)
_add_face_centroids ==
    LET m == face_midpoints(simplices)
    IN  <<self_x \o m[1], self_y \o m[2]>>

\* uniformly_refine_triangulation(faces, trisect) (lines 950-965)
uniformly_refine_triangulation(faces, trisect) ==
    IF faces THEN _add_face_centroids
    ELSE IF ~trisect THEN _add_midpoints
    ELSE _add_tripoints

\* min(a, b) of two tuples
MinTuple(a, b) == IF LexLess(b, a) THEN b ELSE a

\* the segments collected by edge_refine_triangulation_by_triangles
\* (lines 999-1006), as the set the code builds
TriangleSegments(triangles) ==
    UNION { LET tri == At(simplices, triangles[k])
            IN  { MinTuple(<<tri[1], tri[2]>>, <<tri[1], tri[2]>>),
                  MinTuple(<<tri[2], tri[3]>>, <<tri[3], tri[2]>>),
                  MinTuple(<<tri[1], tri[3]>>, <<tri[3], tri[1]>>) }
            : k \in 1..Len(triangles) }

\* edge_refine_triangulation_by_triangles(triangles) (lines 982-1015), for a
\* selection that is not empty; list(segments) is taken in sorted order
edge_refine_triangulation_by_triangles(triangles) ==
    LET segs == SortedSeq(TriangleSegments(triangles))
        m    == segment_midpoints(segs)
    IN  <<self_x \o m[1], self_y \o m[2]>>

join_Inverted(t2, unique) ==
    LET x_v1 == self_x \o Col(t2, 1)
        y_v1 == self_y \o Col(t2, 2)
        unique_coords == Unique(ColumnStack(x_v1, y_v1))
    IN  IF unique THEN <<Col(unique_coords, 1), Col(unique_coords, 2)>>
        ELSE <<x_v1, y_v1>>

\* join(t2, unique) (lines 1062-1081); t2 stands for t2.points
join(t2, unique) ==
    LET x_v1 == self_x \o Col(t2, 1)
        y_v1 == self_y \o Col(t2, 2)
        unique_coords == Unique(ColumnStack(x_v1, y_v1))
    IN  IF ~unique THEN <<Col(unique_coords, 1), Col(unique_coords, 2)>>
        ELSE <<x_v1, y_v1>>

\* ------------------------------------------------- refinement by vertices

\* the elements of a finite set of integers, smallest first
RECURSIVE SortedInts(_)
SortedInts(S) ==
    IF S = {} THEN <<>>
    ELSE LET m == CHOOSE a \in S : \A b \in S : a <= b
         IN  <<m>> \o SortedInts(S \ {m})

\* the rows (0-based) of simplices that hold the vertex
RowsWith(vertex) ==
    { k - 1 : k \in { j \in 1..Len(simplices) : vertex \in Range(simplices[j]) } }

\* identify_vertex_neighbours(vertex) (lines 756-765), for a vertex that
\* some row holds
identify_vertex_neighbours(vertex) ==
    SortedInts(UNION { Range(At(simplices, k)) : k \in RowsWith(vertex) } \ {vertex})

\* identify_vertex_triangles(vertices) (lines 769-779)
identify_vertex_triangles(vertices) ==
    SortedInts(UNION { RowsWith(vertices[k]) : k \in 1..Len(vertices) })

\* segment_midpoints_by_vertices(vertices) (lines 802-818); list(segments)
\* is taken in sorted order
segment_midpoints_by_vertices(vertices) ==
    LET segments ==
            UNION { { MinTuple(<<vertices[k], n1>>, <<n1, vertices[k]>>) :
                        n1 \in Range(identify_vertex_neighbours(vertices[k])) } :
                    k \in 1..Len(vertices) }
    IN  segment_midpoints(SortedSeq(segments))

\* midpoint_refine_triangulation_by_vertices(vertices) (lines 968-979)
midpoint_refine_triangulation_by_vertices(vertices) ==
    LET m == segment_midpoints_by_vertices(vertices)
    IN  <<self_x \o m[1], self_y \o m[2]>>

\* edge_refine_triangulation_by_vertices(vertices) (lines 1018-1026)
edge_refine_triangulation_by_vertices(vertices) ==
    edge_refine_triangulation_by_triangles(identify_vertex_triangles(vertices))

\* centroid_refine_triangulation_by_triangles(triangles) (lines 1029-1047),
\* for a selection that is not empty
centroid_refine_triangulation_by_triangles(triangles) ==
    LET unique == SortedInts(Range(triangles))
        m      == face_midpoints(Take(simplices, unique))
    IN  <<self_x \o m[1], self_y \o m[2]>>

\* centroid_refine_triangulation_by_vertices(vertices) (lines 1051-1059)
centroid_refine_triangulation_by_vertices(vertices) ==
    centroid_refine_triangulation_by_triangles(identify_vertex_triangles(vertices))

\* ---------------------------------------------------------- field operations

\* the status a surface-fitting routine of _srfpack reports: 0, the warning 1
\* or a negative error of _ier_codes
SrfpackStatus == {-2, -1, 0, 1}

\* the calls after which gradg reports a status other than 1
MaxGradgCalls == 2

\* gradz = None
None == <<>>

\* one call of an engine routine with the arrays handed to it
EngineCall(fn, xs, ys, f, w, a, seed) ==
    [fn |-> fn, x |-> xs, y |-> ys, f |-> f, w |-> w, lst |-> a, seed |-> seed]

\* how an operation ends: with what it returns, or with what it raises
Success(engine, status, warnings, value) ==
    [raised |-> "none", where |-> "", code |-> 0, ierr |-> status,
     engine |-> engine, warnings |-> warnings, value |-> value]

Failure(kind, where, status, engine) ==
    [raised |-> kind, where |-> where, code |-> status, ierr |-> status,
     engine |-> engine, warnings |-> <<>>, value |-> <<>>]

\* np.squeeze of an array of one dimension
Squeeze(a) == IF Len(a) = 1 THEN a[1] ELSE a

\* What an engine computes for node i (1-based) of the arrays it was given:
\* a term over the coordinates and the data it holds for that node.
NodeTerm(tag, xs, ys, f, i) == <<tag, xs[i], ys[i], f[i]>>

\* _srfpack.gradg: <<gradient, ierr>>, gradient of shape (2, n)
gradg(xs, ys, f, a) ==
    { << << [i \in 1..Len(xs) |-> NodeTerm("dfdx", xs, ys, f, i)],
            [i \in 1..Len(xs) |-> NodeTerm("dfdy", xs, ys, f, i)] >>, e >> :
        e \in SrfpackStatus }

\* _srfpack.gradl(k, ...): <<gradX, gradY, l>> for node k (1-based); l is the
\* number of nodes used, or a negative error
gradl(k, xs, ys, f, a) ==
    { << NodeTerm("dfdx", xs, ys, f, k), NodeTerm("dfdy", xs, ys, f, k), l >> :
        l \in {-2, -1, Len(xs)} }

\* _srfpack.smsurf: <<f_smooth, df, ierr>>, df of shape (2, n)
smsurf(xs, ys, f, w, a) ==
    { << [i \in 1..Len(xs) |-> <<"smooth", xs[i], ys[i], f[i], w[i]>>],
         << [i \in 1..Len(xs) |-> NodeTerm("dfdx", xs, ys, f, i)],
            [i \in 1..Len(xs) |-> NodeTerm("dfdy", xs, ys, f, i)] >>, e >> :
        e \in SrfpackStatus }

\* the squared distance of node k (1-based) to the point (xq, yq)
Dist2(xs, ys, k, xq, yq) ==
    (xs[k] - xq) * (xs[k] - xq) + (ys[k] - yq) * (ys[k] - yq)

\* _tripack.nearnds for one point: <<ist, dist>>, ist the node (1-based)
\* nearest to the point
nearnds(xq, yq, xs, ys, a) ==
    { << <<k>>, <<Dist2(xs, ys, k, xq, yq)>> >> :
        k \in { j \in 1..Len(xs) :
                  \A m \in 1..Len(xs) :
                     Dist2(xs, ys, j, xq, yq) <= Dist2(xs, ys, m, xq, yq) } }

\* the arcs of the triangulation with a triangle on their left only
BoundaryArcs(a) ==
    LET Arcs(t) == { <<t[1], t[2]>>, <<t[2], t[3]>>, <<t[3], t[1]>> }
        E == UNION { Arcs(t) : t \in a.tris }
    IN  { e \in E : <<e[2], e[1]>> \notin E }

RECURSIVE Walk(_, _, _)
Walk(arcs, from, n) ==
    IF n = 0 THEN <<>>
    ELSE <<from>> \o Walk(arcs, (CHOOSE e \in arcs : e[1] = from)[2], n - 1)

\* _tripack.bnodes: <<nodes, nb, na, nt>>, nodes holding the nb boundary
\* nodes (1-based) counter-clockwise from the lowest one, the rest unused
bnodes(a, n) ==
    LET arcs  == BoundaryArcs(a)
        nb    == Cardinality(arcs)
        first == CHOOSE s \in { e[1] : e \in arcs } :
                    \A e \in arcs : s <= e[1]
        walk  == Walk(arcs, first, nb)
    IN  << [k \in 1..n |-> IF k <= nb THEN walk[k] + 1 ELSE 0],
           nb, 3 * n - nb - 3, 2 * n - nb - 2 >>

\* the triangles of the adjacency that hold the point (xq, yq), border included
Holding(a, xq, yq) ==
    { t \in a.tris :
        \A e \in { <<t[1], t[2]>>, <<t[2], t[3]>>, <<t[3], t[1]>> } :
            Orient(At(a.pts, e[1]), At(a.pts, e[2]), <<xq, yq>>) >= 0 }

\* the triangle an interpolation routine locates the point in: one that
\* holds it, or none (<<>>) outside the hull
Located(a, xq, yq) ==
    IF Holding(a, xq, yq) = {} THEN { <<>> } ELSE Holding(a, xq, yq)

\* What an interpolation routine computes at (xq, yq) from the nodal data z:
\* the datum of the node at that point, else a term over the data at the
\* corners of the located triangle t.
Interpolant(tag, xq, yq, xs, ys, z, t) ==
    LET at == { k \in 1..Len(xs) : xs[k] = xq /\ ys[k] = yq }
        Corners == { <<xs[t[c] + 1], ys[t[c] + 1], z[t[c] + 1]>> : c \in 1..Len(t) }
    IN  IF at # {} THEN z[CHOOSE k \in at : TRUE]
        ELSE <<tag, xq, yq, Corners>>

\* the status of an interpolation: 0 inside the hull, 1 for an extrapolation
InterpolationStatus(t) == IF t = <<>> THEN 1 ELSE 0

\* _srfpack.intrc0: <<zi, ierr>>
intrc0(xq, yq, xs, ys, z, a, ist) ==
    { <<Interpolant("intrc0", xq, yq, xs, ys, z, t), InterpolationStatus(t)>> :
        t \in Located(a, xq, yq) }

\* _srfpack.intrc1: <<zi, dzx, dzy, ierr>>
intrc1(xq, yq, xs, ys, z, a, grad, ist) ==
    { <<Interpolant("intrc1", xq, yq, xs, ys, z, t),
        Interpolant("dzx", xq, yq, xs, ys, grad[1], t),
        Interpolant("dzy", xq, yq, xs, ys, grad[2], t),
        InterpolationStatus(t)>> :
        t \in Located(a, xq, yq) }

\* lines 299-315 of gradient: the values go to the engine in its order,
\* gradg is called once, or until its status is no longer 1, and a negative
\* status raises
GradientEstimate(f, guarantee_convergence) ==
    LET fs    == _shuffle_field(_permutation, f)
        call  == EngineCall("gradg", _x, _y, fs, <<>>, lst, 0)
        Calls(k) == [j \in 1..k |-> call]
        Last  == { r \in gradg(_x, _y, fs, lst) :
                     guarantee_convergence => r[2] # 1 }
    IN  { IF r[2] < 0
          THEN Failure("ValueError", "gradg", r[2], Calls(k))
          ELSE Success(Calls(k), r[2], <<>>,
                       << _deshuffle_field(_invpermutation, r[1][1]),
                          _deshuffle_field(_invpermutation, r[1][2]) >>) :
          k \in 1..(IF guarantee_convergence THEN MaxGradgCalls ELSE 1),
          r \in Last }

\* gradient with a size check that lets a longer array through
gradient_LongerAccepted(f, guarantee_convergence) ==
    IF Len(f) < npoints THEN { Failure("ValueError", "size", 0, <<>>) }
    ELSE GradientEstimate(f, guarantee_convergence)

\* gradient(f, guarantee_convergence=...) (lines 296-315)
gradient(f, guarantee_convergence) ==
    IF Len(f) # npoints THEN { Failure("ValueError", "size", 0, <<>>) }
    ELSE GradientEstimate(f, guarantee_convergence)

\* gradient_local(f, index) (lines 329-337)
gradient_local(f, index) ==
    IF Len(f) # npoints THEN { Failure("ValueError", "size", 0, <<>>) }
    ELSE
      LET fs   == _shuffle_field(_permutation, f)
          call == EngineCall("gradl", _x, _y, fs, <<>>, lst, index + 1)
      IN  { Success(<<call>>, 0, <<>>, <<r[1], r[2]>>) :
              r \in gradl(index + 1, _x, _y, fs, lst) }

\* convex_hull() that returns the engine's indices as they are
convex_hull_EngineOrder ==
    LET r == bnodes(lst, npoints)
    IN  [k \in 1..r[2] |-> r[1][k] - 1]

\* convex_hull() (lines 882-883)
convex_hull ==
    LET r == bnodes(lst, npoints)
    IN  Take(_permutation, [k \in 1..r[2] |-> r[1][k] - 1])

\* interpolate_nearest(xi, yi, zdata) for one point (lines 455-486)
interpolate_nearest(xi, yi, zdata) ==
    IF Len(zdata) # npoints THEN { Failure("ValueError", "size", 0, <<>>) }
    ELSE
      LET zs       == _shuffle_field(_permutation, zdata)
          search   == EngineCall("nearnds", _x, _y, <<>>, <<>>, lst, 1)
          boundary == EngineCall("bnodes", <<>>, <<>>, <<>>, <<>>, lst, 0)
          hull_idx == convex_hull
          hull_pts == Take(points, hull_idx)
          hull_x   == Col(hull_pts, 1)
          hull_y   == Col(hull_pts, 2)
          vector_det(k) ==
              (hull_x[k + 1] - hull_x[k]) * (yi - hull_y[k])
                - (hull_y[k + 1] - hull_y[k]) * (xi - hull_x[k])
          zierr == IF \E k \in 1..(Len(hull_idx) - 1) : vector_det(k) < 0
                   THEN 1 ELSE 0
      IN  { Success(<<search, boundary>>, 0, <<>>,
                    << Squeeze(Take(zs, [k \in 1..1 |-> r[1][k] - 1])), <<zierr>> >>) :
              r \in nearnds(xi, yi, _x, _y, lst) }

\* np.abs(a - v).argmin(): the first index (0-based) of the least distance
ArgMinAbs(a, v) ==
    LET Abs(d) == IF d < 0 THEN -d ELSE d
    IN  (CHOOSE k \in 1..Len(a) :
           /\ \A m \in 1..Len(a) : Abs(a[k] - v) <= Abs(a[m] - v)
           /\ \A m \in 1..(k - 1) : Abs(a[m] - v) > Abs(a[k] - v)) - 1

\* interpolate_linear(xi, yi, zdata) for one point (lines 508-529)
interpolate_linear(xi, yi, zdata) ==
    IF Len(zdata) # npoints THEN { Failure("ValueError", "size", 0, <<>>) }
    ELSE
      LET zs   == _shuffle_field(_permutation, zdata)
          ist  == ArgMinAbs(_x, xi) + 1
          call == EngineCall("intrc0", _x, _y, zs, <<>>, lst, ist)
      IN  { Success(<<call>>, 0, <<>>, << Squeeze(<<r[1]>>), <<r[2]>> >>) :
              r \in intrc0(xi, yi, _x, _y, zs, lst, ist) }

\* interpolate_cubic(xi, yi, zdata, gradz, derivatives) for one point
\* (lines 562-601)
interpolate_cubic(xi, yi, zdata, gradz, derivatives) ==
    IF Len(zdata) # npoints THEN { Failure("ValueError", "size", 0, <<>>) }
    ELSE IF gradz # None
            /\ ~(Len(gradz) = 2 /\ \A c \in 1..Len(gradz) : Len(gradz[c]) = npoints)
    THEN { Failure("ValueError", "gradz", 0, <<>>) }
    ELSE
      LET grads == IF gradz = None THEN gradient(zdata, FALSE)
                   ELSE { Success(<<>>, 0, <<>>, gradz) }
          zs    == _shuffle_field(_permutation, zdata)
          ist   == ArgMinAbs(_x, xi) + 1
          Rest(g) ==
              LET gradX == _shuffle_field(_permutation, g.value[1])
                  gradY == _shuffle_field(_permutation, g.value[2])
                  gradZ == <<gradX, gradY>>
                  call  == EngineCall("intrc1", _x, _y, zs, gradZ, lst, ist)
              IN  { Success(g.engine \o <<call>>, 0, <<>>,
                            IF derivatives
                            THEN << Squeeze(<<r[1]>>), <<r[4]>>, << <<r[2]>>, <<r[3]>> >> >>
                            ELSE << Squeeze(<<r[1]>>), <<r[4]>> >>) :
                      r \in intrc1(xi, yi, _x, _y, zs, lst, gradZ, ist) }
      IN  UNION { IF g.raised # "none" THEN { g } ELSE Rest(g) : g \in grads }

\* smoothing(f, w, sm, smtol, gstol) (lines 373-399)
smoothing(f, w) ==
    IF Len(f) # npoints \/ Len(f) # Len(w)
    THEN { Failure("ValueError", "size", 0, <<>>) }
    ELSE
      LET fs   == _shuffle_field(_permutation, f)
          ws   == _shuffle_field(_permutation, w)
          call == EngineCall("smsurf", self_x, self_y, fs, ws, lst, 0)
      IN  { IF r[3] < 0
            THEN Failure("ValueError", "smsurf", r[3], <<call>>)
            ELSE Success(<<call>>, r[3],
                         IF r[3] = 1 THEN <<"constraint not active">> ELSE <<>>,
                         << _deshuffle_field(_invpermutation, r[1]),
                            << _deshuffle_field(_invpermutation, r[2][1]),
                               _deshuffle_field(_invpermutation, r[2][2]) >>,
                            r[3] >>) :
            r \in smsurf(self_x, self_y, fs, ws, lst) }

\* ----------------------------------------------------------------- queries

\* a[i] of numpy for an index that may be negative (counted from the end)
NpAt(a, i) == IF i < 0 THEN a[Len(a) + i + 1] ELSE a[i + 1]

\* np.sort of a row of three indices, kept as it is
SortRow_Unsorted(t) == t

\* np.sort of a row of three indices
SortRow(t) ==
    LET lo == CHOOSE v \in Range(t) : \A w \in Range(t) : v <= w
        hi == CHOOSE v \in Range(t) : \A w \in Range(t) : w <= v
    IN  <<lo, t[1] + t[2] + t[3] - lo - hi, hi>>

\* the boundary arcs that have the point strictly on their outer side
VisibleArcs(a, xq, yq) ==
    { e \in BoundaryArcs(a) :
        Orient(At(a.pts, e[1]), At(a.pts, e[2]), <<xq, yq>>) < 0 }

\* _tripack.trfind(nst, px, py, ...): <<i1, i2, i3>>, the nodes (1-based) of
\* a triangle that holds the point, counter-clockwise from any of the three;
\* outside the hull i3 = 0 and i1, i2 are the rightmost and the leftmost
\* boundary node visible from the point (the two ends of the visible arcs).
trfind(nst, xq, yq, xs, ys, a) ==
    IF Holding(a, xq, yq) # {}
    THEN UNION { { <<t[1] + 1, t[2] + 1, t[3] + 1>>,
                   <<t[2] + 1, t[3] + 1, t[1] + 1>>,
                   <<t[3] + 1, t[1] + 1, t[2] + 1>> } : t \in Holding(a, xq, yq) }
    ELSE LET V == VisibleArcs(a, xq, yq)
         IN  { <<e[2] + 1, f[1] + 1, 0>> :
                 e \in { g \in V : \A h \in V : h[1] # g[2] },
                 f \in { g \in V : \A h \in V : h[2] # g[1] } }

\* containing_triangle(xi, yi) for one point (lines 687-699)
containing_triangle(xi, yi) ==
    LET pv == _permutation
        sorted_simplices == [k \in 1..Len(_simplices) |-> SortRow(_simplices[k])]
        call == EngineCall("trfind", _x, _y, <<>>, <<>>, lst, 3)
        Where(t) ==
            LET tri  == [c \in 1..3 |-> SortRow(t)[c] - 1]
                ptri == [c \in 1..3 |-> NpAt(pv, tri[c])]
                hit  == [k \in 1..Len(sorted_simplices) |->
                            Take(pv, sorted_simplices[k]) = ptri]
            IN  Mask(Arange(Len(sorted_simplices)), hit)
    IN  { Success(<<call>>, 0, <<>>, Where(t)) :
            t \in trfind(3, xi, yi, _x, _y, lst) }

\* self._points[tri - 1] with the accessor points in place of _points
bcc_vertices_UserOrder(t) == [c \in 1..3 |-> NpAt(points, t[c] - 1)]

\* vert = self._points[tri[i] - 1] (line 731)
bcc_vertices(t) == [c \in 1..3 |-> NpAt(_points, t[c] - 1)]

Dot(a, b) == a[1] * b[1] + a[2] * b[2]

\* Lines 731-747 and 751 for the triple t the engine returned: the weights
\* <<u, v, w>> as numerators over a common divisor, <<<<nu, nv, nw>>, d>>.
\* v and w are fractions over denom, u = 1 - v - w, and the row is divided by
\* its sum; d = 0 stands for the nan of a division by zero.
barycentric(t, pt) ==
    LET vert  == bcc_vertices(t)
        v0    == <<vert[2][1] - vert[1][1], vert[2][2] - vert[1][2]>>
        v1    == <<vert[3][1] - vert[1][1], vert[3][2] - vert[1][2]>>
        v2    == <<pt[1] - vert[1][1], pt[2] - vert[1][2]>>
        d00   == Dot(v0, v0)
        d01   == Dot(v0, v1)
        d11   == Dot(v1, v1)
        d20   == Dot(v2, v0)
        d21   == Dot(v2, v1)
        denom == d00 * d11 - d01 * d01
        nv    == d11 * d20 - d01 * d21
        nw    == d00 * d21 - d01 * d20
        nu    == denom - nv - nw
    IN  IF denom = 0 THEN << <<0, 0, 0>>, 0 >>
        ELSE << <<nu, nv, nw>>, nu + nv + nw >>

\* containing_simplex_and_bcc(xi, yi) for one point (lines 722-753):
\* <<bcc, tri>>
containing_simplex_and_bcc(xi, yi) ==
    LET call == EngineCall("trfind", _x, _y, <<>>, <<>>, lst, 3)
    IN  { Success(<<call>>, 0, <<>>,
                  << <<barycentric(t, <<xi, yi>>)>>,
                     <<[c \in 1..3 |-> NpAt(_permutation, t[c] - 1)]>> >>) :
            t \in trfind(3, xi, yi, _x, _y, lst) }

\* _tripack.nearnd(px, py, ist, ...): <<node, dsq>>, the node (1-based)
\* nearest to the point and the squared distance; ist, the node the search
\* starts from, does not change what is found
nearnd(xq, yq, ist, xs, ys, a) ==
    { <<r[1][1], r[2][1]>> : r \in nearnds(xq, yq, xs, ys, a) }

\* nearest_vertex(xi, yi) for one point (lines 649-668): <<index, dist>>
nearest_vertex(xi, yi) ==
    LET i    == ArgMinAbs(_x, xi)
        call == EngineCall("nearnd", _x, _y, <<>>, <<>>, lst, i)
    IN  { Success(<<call>>, 0, <<>>,
                  << Take(_permutation, <<r[1] - 1>>), <<r[2]>> >>) :
            r \in nearnd(xi, yi, i, _x, _y, lst) }

\* cKDTree.query(xy, k=1) for one point: <<dxy, vertices>>, the distance (the
\* root of the squared distance, kept as a term) and the row of the index
\* (0-based) of a nearest point
cKDTree_query(index, xq, yq) ==
    LET xs == Col(index.data, 1)
        ys == Col(index.data, 2)
    IN  { << <<<<"sqrt", r[2][1]>>>>, <<r[1][1] - 1>> >> :
            r \in nearnds(xq, yq, xs, ys, NoAdjacency) }

\* nearest_vertices(x, y, k=1) for one point (lines 1115-1126)
nearest_vertices(xq, yq) ==
    IF tree = FALSE THEN { Success(<<>>, 0, <<>>, <<0, 0>>) }
    ELSE IF _cKDtree.state # "built"
    THEN { Failure("AttributeError", "_cKDtree", 0, <<>>) }
    ELSE LET call == EngineCall("cKDTree.query", Col(_cKDtree.data, 1),
                                Col(_cKDtree.data, 2), <<>>, <<>>, NoAdjacency, 0)
         IN  { Success(<<call>>, 0, <<>>, << r[1], <<r[2]>> >>) :
                 r \in cKDTree_query(_cKDtree, xq, yq) }

\* ------------------------------------------------------- calls on an instance

Returned(op, args, calls, value) ==
    [op |-> op, args |-> args, raised |-> "none", where |-> "", code |-> 0,
     ierr |-> 0, calls |-> calls, value |-> value,
     engine |-> <<>>, warnings |-> <<>>]

Raised(op, args, kind, where, status, calls) ==
    [op |-> op, args |-> args, raised |-> kind, where |-> where, code |-> status,
     ierr |-> status, calls |-> calls, value |-> <<>>,
     engine |-> <<>>, warnings |-> <<>>]

\* a call that sorts the rows of self._simplices where they are stored
\* (self._simplices.sort(axis=1) for np.sort(self._simplices, axis=1))
Call_SortsInPlace(res) ==
    /\ pc = "idle"
    /\ result' = res
    /\ pc' = "returned"
    /\ _simplices' = [k \in 1..Len(_simplices) |-> SortRow(_simplices[k])]
    /\ UNCHANGED <<permute, tree, input, refinement_levels, rounds, builds, locals, nt>>
    /\ UNCHANGED <<_permutation, _invpermutation, npoints, _x, _y, _points, lst,
                   _cKDtree>>

\* a call that returns or raises and leaves the instance as it is
Call(res) ==
    /\ pc = "idle"
    /\ result' = res
    /\ pc' = "returned"
    /\ UNCHANGED <<permute, tree, input, refinement_levels, rounds, builds, locals, fields, nt>>

\* the caller has taken what the last call returned or raised, and the
\* instance is ready for the next call
NextCall ==
    /\ pc = "returned"
    /\ pc' = "idle"
    /\ result' = NoResult
    /\ UNCHANGED <<permute, tree, input, refinement_levels, rounds, builds, locals, fields, nt>>

IdentifySegments ==
    /\ pc = "idle"
    /\ Call(Returned("identify_segments", <<>>, 0, identify_segments))

UniformlyRefineTriangulation ==
    /\ pc = "idle"
    /\ \E faces, trisect \in BOOLEAN :
        Call(Returned("uniformly_refine_triangulation", <<faces, trisect>>, 0,
                      uniformly_refine_triangulation(faces, trisect)))

\* the selections of triangle indices: up to MaxSel indices of rows
Selections ==
    UNION { SeqsOfLen(0..(Len(_simplices) - 1), n) : n \in 0..MaxSel }

\* An empty selection makes segs an array without columns, and
\* segments[:,0] raises IndexError.
EdgeRefineTriangulationByTriangles ==
    /\ pc = "idle"
    /\ \E triangles \in Selections :
        Call(IF triangles = <<>>
             THEN Raised("edge_refine_triangulation_by_triangles", triangles,
                         "IndexError", "", 0, 0)
             ELSE Returned("edge_refine_triangulation_by_triangles", triangles, 0,
                           edge_refine_triangulation_by_triangles(triangles)))

\* the points of the triangulations this one is joined with: itself, or
\* three consecutive points of DomainPoints that form a triangle
JoinPartners ==
    { points } \cup
    { t \in { SubSeq(DomainPoints, k, k + 2) : k \in 1..(DomainSize - 2) } :
        ~_is_collinear(Col(t, 1), Col(t, 2)) }

Join ==
    /\ pc = "idle"
    /\ \E t2 \in JoinPartners, unique \in BOOLEAN :
        Call(Returned("join", <<t2, unique>>, 0, join(t2, unique)))

\* the sizes of the arrays of nodal values handed to the field operations
FieldSizes == { npoints - 1, npoints, npoints + 1 }

\* an array of n nodal values, and an array of n weights
Field(n) == [i \in 1..n |-> 100 * i]
Weights(n) == [i \in 1..n |-> i]

\* the points the interpolations are asked for
QueryPoints == { <<12, 6>>, <<24, 24>>, <<36, 12>> }

\* a field operation that ended with the outcome o
FieldCall(op, args, o) ==
    Call([op |-> op, args |-> args, raised |-> o.raised, where |-> o.where,
          code |-> o.code, ierr |-> o.ierr, calls |-> Len(o.engine),
          value |-> o.value, engine |-> o.engine, warnings |-> o.warnings])

Gradient ==
    /\ pc = "idle"
    /\ \E n \in FieldSizes, guarantee_convergence \in BOOLEAN :
        \E o \in gradient(Field(n), guarantee_convergence) :
            FieldCall("gradient", <<Field(n), guarantee_convergence>>, o)

GradientLocal ==
    /\ pc = "idle"
    /\ \E n \in FieldSizes, index \in 0..(npoints - 1) :
        \E o \in gradient_local(Field(n), index) :
            FieldCall("gradient_local", <<Field(n), index>>, o)

Smoothing ==
    /\ pc = "idle"
    /\ \E n \in FieldSizes, m \in FieldSizes :
        \E o \in smoothing(Field(n), Weights(m)) :
            FieldCall("smoothing", <<Field(n), Weights(m)>>, o)

InterpolateNearest ==
    /\ pc = "idle"
    /\ \E q \in QueryPoints, n \in FieldSizes :
        \E o \in interpolate_nearest(q[1], q[2], Field(n)) :
            FieldCall("interpolate_nearest", <<q[1], q[2], Field(n)>>, o)

InterpolateLinear ==
    /\ pc = "idle"
    /\ \E q \in QueryPoints, n \in FieldSizes :
        \E o \in interpolate_linear(q[1], q[2], Field(n)) :
            FieldCall("interpolate_linear", <<q[1], q[2], Field(n)>>, o)

\* gradz: None, or two rows of n values each
Gradients == { None } \cup { <<Field(n), Weights(n)>> : n \in { npoints, npoints + 1 } }

InterpolateCubic ==
    /\ pc = "idle"
    /\ \E q \in QueryPoints, n \in FieldSizes, gradz \in Gradients,
          derivatives \in BOOLEAN :
        \E o \in interpolate_cubic(q[1], q[2], Field(n), gradz, derivatives) :
            FieldCall("interpolate_cubic",
                      <<q[1], q[2], Field(n), gradz, derivatives>>, o)

ContainingTriangle ==
    /\ pc = "idle"
    /\ \E q \in QueryPoints :
        \E o \in containing_triangle(q[1], q[2]) :
            FieldCall("containing_triangle", <<q[1], q[2]>>, o)

ContainingSimplexAndBcc ==
    /\ pc = "idle"
    /\ \E q \in QueryPoints :
        \E o \in containing_simplex_and_bcc(q[1], q[2]) :
            FieldCall("containing_simplex_and_bcc", <<q[1], q[2]>>, o)

ConvexHull ==
    /\ pc = "idle"
    /\ FieldCall("convex_hull", <<>>,
                 Success(<<EngineCall("bnodes", <<>>, <<>>, <<>>, <<>>, lst, 0)>>,
                         0, <<>>, convex_hull))

NearestVertices ==
    /\ pc = "idle"
    /\ \E q \in QueryPoints :
        \E o \in nearest_vertices(q[1], q[2]) :
            FieldCall("nearest_vertices", <<q[1], q[2]>>, o)

\* the lists of vertices handed to the operations by vertices: the first or
\* the last vertex
VertexSelections == { <<v>> : v \in { 0, npoints - 1 } }

\* a vertex that no row holds leaves an empty list of neighbours, and
\* list.remove raises ValueError
IdentifyVertexNeighbours ==
    /\ pc = "idle"
    /\ \E vs \in VertexSelections :
        Call(IF RowsWith(vs[1]) = {}
             THEN Raised("identify_vertex_neighbours", vs[1], "ValueError", "", 0, 0)
             ELSE Returned("identify_vertex_neighbours", vs[1], 0,
                           identify_vertex_neighbours(vs[1])))

IdentifyVertexTriangles ==
    /\ pc = "idle"
    /\ \E vs \in VertexSelections :
        Call(Returned("identify_vertex_triangles", vs, 0,
                      identify_vertex_triangles(vs)))

\* the lists of vertices that some row holds
HeldVertices == { vs \in VertexSelections : RowsWith(vs[1]) # {} }

MidpointRefineTriangulationByVertices ==
    /\ pc = "idle"
    /\ \E vs \in HeldVertices :
        Call(Returned("midpoint_refine_triangulation_by_vertices", vs, 0,
                      midpoint_refine_triangulation_by_vertices(vs)))

EdgeRefineTriangulationByVertices ==
    /\ pc = "idle"
    /\ \E vs \in HeldVertices :
        Call(Returned("edge_refine_triangulation_by_vertices", vs, 0,
                      edge_refine_triangulation_by_vertices(vs)))

\* An empty selection is an array of floats, and indexing simplices with it
\* raises IndexError.
CentroidRefineTriangulationByTriangles ==
    /\ pc = "idle"
    /\ \E triangles \in Selections :
        Call(IF triangles = <<>>
             THEN Raised("centroid_refine_triangulation_by_triangles", triangles,
                         "IndexError", "", 0, 0)
             ELSE Returned("centroid_refine_triangulation_by_triangles", triangles, 0,
                           centroid_refine_triangulation_by_triangles(triangles)))

CentroidRefineTriangulationByVertices ==
    /\ pc = "idle"
    /\ \E vs \in HeldVertices :
        Call(Returned("centroid_refine_triangulation_by_vertices", vs, 0,
                      centroid_refine_triangulation_by_vertices(vs)))

NearestVertex ==
    /\ pc = "idle"
    /\ \E q \in QueryPoints :
        \E o \in nearest_vertex(q[1], q[2]) :
            FieldCall("nearest_vertex", <<q[1], q[2]>>, o)

\* what a turn of the loop of __init__ gets from
\* uniformly_refine_triangulation(faces=False, trisect=False) (line 115), with
\* the number of unique segments of the triangulation it refines
Round ==
    LET a == uniformly_refine_triangulation(FALSE, FALSE)
    IN  [segments |-> Len(identify_segments), x |-> a[1], y |-> a[2]]

\* one turn of the loop of __init__ with permute off (lines 114-116, 138,
\* 155-195)
InitRefineIdentity ==
    /\ pc = "refine"
    /\ ~permute
    /\ \E r \in trmesh(Round.x, Round.y) :
          Build(Arange(Len(Round.x)), Arange(Len(Round.x)), Round.x, Round.y,
                r[2], r[1], 1)
    /\ builds' = builds + 1
    /\ rounds' = Append(rounds, Round)
    /\ UNCHANGED <<permute, tree, input, refinement_levels>>

\* one turn of the loop of __init__ with permute on, up to the loop of
\* _update_triangulation (lines 114-116, 138-144)
InitRefinePermuteEnter ==
    /\ pc = "refine"
    /\ permute
    /\ x' = Round.x
    /\ y' = Round.y
    /\ niter' = 0
    /\ ierr' = -2
    /\ pc' = "loop"
    /\ builds' = builds + 1
    /\ rounds' = Append(rounds, Round)
    /\ UNCHANGED <<permute, tree, input, refinement_levels, p, ip, adj, fields, nt,
                   result>>

Next ==
    \/ UpdateIdentity
    \/ UpdatePermuteEnter
    \/ UpdatePermuteAttempt
    \/ UpdatePermuteExit
    \/ IdentifySegments
    \/ UniformlyRefineTriangulation
    \/ EdgeRefineTriangulationByTriangles
    \/ Join
    \/ Gradient
    \/ GradientLocal
    \/ Smoothing
    \/ InterpolateNearest
    \/ InterpolateLinear
    \/ InterpolateCubic
    \/ ContainingTriangle
    \/ ContainingSimplexAndBcc
    \/ ConvexHull
    \/ NearestVertices
    \/ IdentifyVertexNeighbours
    \/ IdentifyVertexTriangles
    \/ MidpointRefineTriangulationByVertices
    \/ EdgeRefineTriangulationByVertices
    \/ CentroidRefineTriangulationByTriangles
    \/ CentroidRefineTriangulationByVertices
    \/ NearestVertex
    \/ RebuildIdentity
    \/ RebuildPermuteEnter
    \/ InitRefineIdentity
    \/ InitRefinePermuteEnter
    \/ NextCall

Spec == Init /\ [][Next]_vars

\* ------------------------------------------------------------------ claims

\* an instance exists: the constructor returned
Constructed == pc \in {"idle", "returned"}

\* C1: after a successful construction the accessors x, y and points return
\* the input coordinates in the input order.
C1_AccessorsReturnInput ==
    Constructed =>
        /\ self_x = Col(input, 1)
        /\ self_y = Col(input, 2)
        /\ points = input

\* C2: with permute on, the collinear error is raised only after five
\* attempts that all reported a collinear seed; a success on any attempt,
\* the fifth included, yields a triangulation.
C2_CollinearOnlyAfterFiveCollinear ==
    (permute /\ pc = "failed" /\ result.where = "" /\ result.code = -2) =>
        (result.calls = MaxAttempts /\ result.ierr = -2)

\* C3: after a successful construction every row of the triangle list has
\* three pairwise distinct vertices and a strictly positive signed area.
C3_TrianglesPositive ==
    Constructed =>
        \A k \in 1..Len(simplices) :
            LET s == simplices[k]
            IN  /\ s[1] # s[2] /\ s[2] # s[3] /\ s[1] # s[3]
                /\ Orient(At(points, s[1]), At(points, s[2]), At(points, s[3])) > 0

\* a construction in which the enumeration held a row that was dropped
C3_Witness ==
    /\ pc = "idle"
    /\ nt > Len(_simplices)
    /\ Len(_simplices) >= 2

\* C10: a trmesh status other than 0 and -2 ends the construction with the
\* error of that status, on whichever attempt it is reported.
C10_StatusDecidesError ==
    (pc = "failed" /\ result.where # "trlist2" /\ result.ierr \notin {0, -2}) =>
        /\ result.where = "trmesh"
        /\ result.code = (IF result.ierr > 0 THEN DuplicateKey ELSE result.ierr)

\* the unordered vertex pairs that are an edge of a row of simps
EdgeSet(simps) ==
    UNION { { {simps[k][1], simps[k][2]}, {simps[k][2], simps[k][3]},
              {simps[k][1], simps[k][3]} } : k \in 1..Len(simps) }

Ended(op) == pc = "returned" /\ result.op = op /\ result.raised = "none"

\* the points a refinement appended to the npoints points of the instance
Inserted(value) ==
    [k \in 1..(Len(value[1]) - npoints) |->
        <<value[1][npoints + k], value[2][npoints + k]>>]

NoRepeat(seq) == \A j, k \in 1..Len(seq) : seq[j] = seq[k] => j = k

\* the points of seq are the midpoints of the edges E, one for each edge
MidpointsOf(seq, E) ==
    /\ Len(seq) = Cardinality(E)
    /\ NoRepeat(seq)
    /\ \A e \in E :
          \E k \in 1..Len(seq) :
              \E a, b \in e :
                  /\ a # b
                  /\ 2 * seq[k][1] = At(points, a)[1] + At(points, b)[1]
                  /\ 2 * seq[k][2] = At(points, a)[2] + At(points, b)[2]

\* C4: every row (n1, n2) of identify_segments, in user index space, has
\* n1 < n2.
C4_SegmentsLowerIndexFirst ==
    Ended("identify_segments") =>
        \A k \in 1..Len(result.value) : result.value[k][1] < result.value[k][2]

\* C5: identify_segments returns each unordered pair that is an edge of a
\* triangle exactly once, and nothing else.
C5_SegmentsAreTheEdges ==
    Ended("identify_segments") =>
        LET segs == result.value
            Pair(k) == {segs[k][1], segs[k][2]}
        IN  /\ { Pair(k) : k \in 1..Len(segs) } = EdgeSet(simplices)
            /\ \A j, k \in 1..Len(segs) : Pair(j) = Pair(k) => j = k

\* the segments of two triangles that share an edge, with permute on
C5_Witness ==
    /\ Ended("identify_segments")
    /\ permute
    /\ Len(_simplices) = 2
    /\ Len(result.value) = 5

\* C6: uniformly_refine_triangulation(faces=False, trisect=False) returns the
\* original points in user order (the input, in the order it was given),
\* then one new point for each unique segment, its midpoint, none of them
\* twice.
C6_UniformMidpoints ==
    (Ended("uniformly_refine_triangulation") /\ result.args = <<FALSE, FALSE>>) =>
        LET v == result.value
        IN  /\ Len(v[1]) = Len(v[2])
            /\ SubSeq(v[1], 1, npoints) = Col(input, 1)
            /\ SubSeq(v[2], 1, npoints) = Col(input, 2)
            /\ Len(Inserted(v)) = Len(identify_segments)
            /\ MidpointsOf(Inserted(v), EdgeSet(simplices))

\* C7: edge_refine_triangulation_by_triangles inserts one midpoint for each
\* distinct unordered edge of the selected triangles, none of them twice.
C7_OneMidpointPerSelectedEdge ==
    Ended("edge_refine_triangulation_by_triangles") =>
        LET sel == [k \in 1..Len(result.args) |-> At(simplices, result.args[k])]
        IN  MidpointsOf(Inserted(result.value), EdgeSet(sel))

FieldOps == { "gradient", "gradient_local", "smoothing",
              "interpolate_nearest", "interpolate_linear", "interpolate_cubic" }

NodalArrays(res) ==
    IF res.op \in { "gradient", "gradient_local" } THEN { res.args[1] }
    ELSE IF res.op = "smoothing" THEN { res.args[1], res.args[2] }
    ELSE { res.args[3] }

\* C9: gradient, gradient_local, smoothing, interpolate_nearest,
\* interpolate_linear and interpolate_cubic raise the invalid-input error
\* (ValueError for the size) when the array of values, or of weights, has a
\* size other than the point count; no engine call was made by then and the
\* stored state of the triangulation is as it was before the call.
C9_SizeMismatchRaisesFirst ==
    [][ ( /\ pc = "idle"
          /\ pc' = "returned"
          /\ result'.op \in FieldOps
          /\ \E a \in NodalArrays(result') : Len(a) # npoints )
        => ( /\ result'.raised = "ValueError"
             /\ result'.where = "size"
             /\ result'.engine = <<>>
             /\ result'.calls = 0
             /\ result'.value = <<>>
             /\ UNCHANGED <<permute, tree, input, refinement_levels, rounds, fields, nt>> ) ]_vars

C9_Witness ==
    /\ pc = "returned"
    /\ result.op = "smoothing"
    /\ Len(result.args[1]) = npoints
    /\ Len(result.args[2]) = npoints + 1
    /\ result.raised = "ValueError"
    /\ result.engine = <<>>

\* C11: in gradient and smoothing a negative engine status raises an error
\* and no data is returned; a positive engine status returns the data with a
\* warning marker the caller can see, an emitted warning or the status among
\* the returned values.
C11_StatusSurfaced ==
    (pc = "returned" /\ result.op \in { "gradient", "smoothing" }
        /\ result.engine # <<>>) =>
        /\ result.ierr < 0 => (result.raised = "ValueError" /\ result.value = <<>>)
        /\ result.ierr > 0 =>
              /\ result.raised = "none"
              /\ result.value # <<>>
              /\ \/ result.warnings # <<>>
                 \/ (result.op = "smoothing" /\ result.value[3] = result.ierr)

\* the point q lies in the triangle of row s (user indices), border included
InTriangle(s, q) ==
    /\ Orient(At(points, s[1]), At(points, s[2]), q) >= 0
    /\ Orient(At(points, s[2]), At(points, s[3]), q) >= 0
    /\ Orient(At(points, s[3]), At(points, s[1]), q) >= 0

\* C12: for a point the engine locates in a triangle of the triangle list,
\* containing_triangle returns the index of that row, simplices[index] being
\* the located triangle in user index space; a point whose triple matches no
\* row (outside the hull) gives no index, and nothing is raised.
C12_LocatedRowReturned ==
    (pc = "returned" /\ result.op = "containing_triangle") =>
        LET q == result.args
            v == result.value
        IN  /\ result.raised = "none"
            /\ IF \E k \in 1..Len(simplices) : InTriangle(simplices[k], q)
               THEN /\ Len(v) = 1
                    /\ InTriangle(At(simplices, v[1]), q)
               ELSE v = <<>>

\* a point located in one of two triangles built with permute on
C12_Witness ==
    /\ pc = "returned" /\ result.op = "containing_triangle"
    /\ permute
    /\ _permutation # Arange(npoints)
    /\ Len(_simplices) >= 2
    /\ Len(result.value) = 1
    /\ result.value[1] = 1

\* C13: for a point located in a triangle, containing_simplex_and_bcc returns
\* weights (u, v, w) and user indices (a, b, c) with u + v + w = 1 and
\* u*points[a] + v*points[b] + w*points[c] the query point; a point strictly
\* inside the triangle has no negative weight.
C13_WeightsReconstructPoint ==
    (pc = "returned" /\ result.op = "containing_simplex_and_bcc"
        /\ \E k \in 1..Len(simplices) : InTriangle(simplices[k], result.args)) =>
        LET q   == result.args
            n   == result.value[1][1][1]
            d   == result.value[1][1][2]
            tri == result.value[2][1]
            P(c) == At(points, tri[c])
            Strictly == /\ Orient(P(1), P(2), q) > 0
                        /\ Orient(P(2), P(3), q) > 0
                        /\ Orient(P(3), P(1), q) > 0
        IN  /\ result.raised = "none"
            /\ d > 0
            /\ n[1] + n[2] + n[3] = d
            /\ \A j \in 1..2 :
                  n[1] * P(1)[j] + n[2] * P(2)[j] + n[3] * P(3)[j] = d * q[j]
            /\ Strictly => \A c \in 1..3 : n[c] >= 0

\* a point strictly inside a triangle built with permute on
C13_Witness ==
    /\ pc = "returned" /\ result.op = "containing_simplex_and_bcc"
    /\ permute
    /\ _permutation # Arange(npoints)
    /\ result.value[1][1][2] > 0
    /\ \A c \in 1..3 : result.value[1][1][1][c] > 0
    /\ LET tri == result.value[2][1]
       IN  Orient(At(points, tri[1]), At(points, tri[2]), At(points, tri[3])) > 0

\* the corners of the square among the points of the domain
SquareCorners == { <<0, 0>>, <<24, 0>>, <<0, 24>>, <<24, 24>> }

\* C14: convex_hull returns, in the order of the engine's boundary list, the
\* user index of each boundary node of the engine and nothing else:
\* points[result[k]] is the k-th boundary node; for the 4 corners of a square
\* the result is, as a set, the 4 indices.
C14_HullInUserSpace ==
    (pc = "returned" /\ result.op = "convex_hull") =>
        LET v == result.value
            b == bnodes(lst, npoints)
        IN  /\ result.raised = "none"
            /\ Len(v) = b[2]
            /\ \A k \in 1..Len(v) : At(points, v[k]) = _points[b[1][k]]
            /\ \A k \in 1..Len(v) : v[k] \in 0..(npoints - 1)
            /\ (npoints = 4 /\ Range(points) = SquareCorners)
                  => Range(v) = 0..3

\* the hull of the square built with permute on
C14_Witness ==
    /\ pc = "returned" /\ result.op = "convex_hull"
    /\ permute
    /\ _permutation # Arange(npoints)
    /\ npoints = 4
    /\ Range(points) = SquareCorners
    /\ Len(result.value) = 4

\* C15: nearest_vertices returns the sentinel (0, 0) and does not fail when
\* the instance has no spatial index, tree not requested or the build of the
\* index at construction produced none; with an index it delegates to it.
C15_SentinelWithoutIndex ==
    (pc = "returned" /\ result.op = "nearest_vertices") =>
        IF tree /\ _cKDtree.state = "built"
        THEN /\ result.raised = "none"
             /\ Len(result.engine) = 1
             /\ result.engine[1].fn = "cKDTree.query"
        ELSE /\ result.raised = "none"
             /\ result.value = <<0, 0>>

\* C17: interpolate_nearest flags a point as an extrapolation (err = 1)
\* exactly when it lies strictly outside the convex hull, and as an
\* interpolation (err = 0) inside the hull or on its boundary: every edge of
\* the closed hull polygon counts.
C17_ExtrapolationIffOutsideHull ==
    Ended("interpolate_nearest") =>
        LET q      == <<result.args[1], result.args[2]>>
            inside == \E k \in 1..Len(simplices) : InTriangle(simplices[k], q)
        IN  result.value[2] = <<IF inside THEN 0 ELSE 1>>

\* the array of nodal values among the arguments of a field operation
ValuesOf(res) ==
    IF res.op \in { "gradient", "gradient_local", "smoothing" } THEN res.args[1]
    ELSE res.args[3]

\* the calls of the engine routines that work on nodal data
NodalRoutines == { "gradg", "gradl", "smsurf", "nearnds", "intrc0", "intrc1" }

\* C18: with permute on, each engine call of a field operation gets
\* coordinates, nodal values, weights and node indices in engine index space,
\* matching the adjacency passed with them, and the per-node results come
\* back in user order.
C18_EngineOrderThroughout ==
    (pc = "returned" /\ permute /\ result.op \in FieldOps
        /\ result.engine # <<>>) =>
        /\ \A c \in 1..Len(result.engine) :
              LET call == result.engine[c]
              IN  call.fn \in NodalRoutines =>
                    /\ call.lst = lst
                    /\ ColumnStack(call.x, call.y) = lst.pts
                    /\ call.f # <<>> =>
                          call.f = Take(ValuesOf(result), _permutation)
                    /\ call.fn = "smsurf" =>
                          call.w = Take(result.args[2], _permutation)
                    /\ call.fn = "gradl" =>
                          call.seed = At(_invpermutation, result.args[2]) + 1
        /\ (result.op = "gradient" /\ result.raised = "none") =>
              \A j \in 1..npoints :
                  result.value[1][j] =
                      <<"dfdx", points[j][1], points[j][2], ValuesOf(result)[j]>>

\* C19: nearest_vertex hands the engine, as the seed of its search, the
\* engine's 1-based index of the stored vertex whose x is closest to the
\* point, and returns the engine's nearest vertex as a user index with the
\* squared distance of the engine.
C19_SeedIsEngineIndex ==
    Ended("nearest_vertex") =>
        LET xq   == result.args[1]
            yq   == result.args[2]
            seed == result.engine[1].seed
            v    == result.value[1][1]
            Gap(k) == IF _x[k] < xq THEN xq - _x[k] ELSE _x[k] - xq
        IN  /\ seed \in 1..npoints
            /\ \A m \in 1..npoints : Gap(seed) <= Gap(m)
            /\ result.value[2][1] = Dist2(self_x, self_y, v + 1, xq, yq)
            /\ \A m \in 1..npoints :
                  Dist2(self_x, self_y, v + 1, xq, yq)
                     <= Dist2(self_x, self_y, m, xq, yq)

\* an instance exists: the constructor returned, whatever was called since
Exists == pc \in {"idle", "returned", "rebuilt", "refined"}

\* C20: after any sequence of construction and rebuild calls on an instance,
\* whether each call succeeded or failed, the stored forward and inverse
\* permutations are mutually inverse bijections on [0, N) with N the stored
\* point count, and the stored points, adjacency arrays and triangle list
\* all come from the same build.
C20_StoredStateFromOneBuild ==
    Exists =>
        /\ Len(_permutation) = npoints
        /\ Len(_invpermutation) = npoints
        /\ \A i \in 1..Len(_permutation) :
              /\ _permutation[i] \in 0..(Len(_invpermutation) - 1)
              /\ At(_invpermutation, _permutation[i]) = i - 1
        /\ \A i \in 1..Len(_invpermutation) :
              /\ _invpermutation[i] \in 0..(Len(_permutation) - 1)
              /\ At(_permutation, _invpermutation[i]) = i - 1
        /\ _points = ColumnStack(_x, _y)
        /\ Len(_points) = npoints
        /\ lst.pts = _points
        /\ { _simplices[k] : k \in 1..Len(_simplices) } = lst.tris

\* the same for the instances no later call of _update_triangulation touched
ConstructionLeavesOneBuild ==
    (Exists /\ builds = 1 + refinement_levels) => C20_StoredStateFromOneBuild

\* the same after a later call that succeeded
SuccessfulRebuildLeavesOneBuild ==
    (pc = "rebuilt" /\ result.raised = "none") => C20_StoredStateFromOneBuild

\* what the instance stores: point set, permutation, adjacency arrays,
\* triangle list and point count
StoredState ==
    <<_x, _y, _points, _permutation, _invpermutation, lst, _simplices, npoints>>

Refinements ==
    { "uniformly_refine_triangulation",
      "midpoint_refine_triangulation_by_vertices",
      "edge_refine_triangulation_by_triangles",
      "edge_refine_triangulation_by_vertices",
      "centroid_refine_triangulation_by_triangles",
      "centroid_refine_triangulation_by_vertices",
      "join" }

Queries ==
    { "identify_segments", "identify_vertex_neighbours",
      "identify_vertex_triangles", "convex_hull", "containing_triangle",
      "containing_simplex_and_bcc", "nearest_vertex", "nearest_vertices" }
      \cup FieldOps

\* C16: every refinement operation (uniform, by vertices, by triangles,
\* centroid, join) and every query leaves the stored point set, permutation,
\* adjacency arrays, triangle list and point count unchanged; only
\* construction or a later call of _update_triangulation changes them.
C16_OnlyBuildsChangeStoredState ==
    [][ /\ ( /\ pc = "idle"
             /\ pc' = "returned"
             /\ result'.op \in Refinements \cup Queries )
           => StoredState' = StoredState
        /\ StoredState' # StoredState
           => ( /\ result'.op = "_update_triangulation"
                /\ pc \in {"new", "loop", "refine", "idle", "rebuilt"}
                /\ pc' \in {"refine", "refined", "idle", "failed", "rebuilt"} ) ]_vars

\* a refinement returned on an instance whose rows are not sorted and whose
\* permutation is not the identity
C16_Witness ==
    /\ pc = "returned"
    /\ result.op = "centroid_refine_triangulation_by_vertices"
    /\ result.raised = "none"
    /\ permute
    /\ _permutation # Arange(npoints)
    /\ \E k \in 1..Len(_simplices) : SortRow(_simplices[k]) # _simplices[k]

\* the numbers of unique segments of the triangulations the turns refined
SegmentCounts == [k \in 1..Len(rounds) |-> rounds[k].segments]

\* C21: constructing with refinement_levels = r performs r rounds, each a
\* uniform midpoint refinement of the current triangulation followed by a
\* full rebuild from the returned array; if every rebuild succeeds, the
\* first N0 points in user order of the final triangulation are the N0 input
\* points in input order and the final point count is N0 plus the sum of the
\* unique-segment counts of the r intermediate triangulations; if a rebuild
\* fails the constructor raises and no instance is returned.
C21_RefinementRounds ==
    /\ pc = "refined" =>
          /\ refinement_levels > 0
          /\ Len(rounds) = refinement_levels
          /\ builds = 1 + refinement_levels
          /\ result.raised = "none"
          /\ points = ColumnStack(rounds[Len(rounds)].x, rounds[Len(rounds)].y)
          /\ SubSeq(points, 1, Len(input)) = input
          /\ npoints = Len(input) + SumSeq(SegmentCounts)
          /\ Len(points) = npoints
    /\ pc = "refine" => result.raised = "none"
    /\ ( /\ result.op = "_update_triangulation"
         /\ result.raised # "none"
         /\ builds <= 1 + refinement_levels ) => pc = "failed"
    /\ pc = "failed" => builds <= 1 + refinement_levels

\* the same where no turn of the retry loop was repeated in the last round:
\* permute off, or trmesh called once before trlist2
RoundsWithoutRetry ==
    (pc = "refined" => (~permute \/ result.calls = 2)) => C21_RefinementRounds

================================================================
